---- MODULE Spec2Model ----
(***************************************************************************)
(* Model of app.py: the CFOP entrada/saida summing pipeline.               *)
(*                                                                         *)
(* Text that the code inspects (file names, column names, CFOP codes,      *)
(* amount cells) is a sequence of one-character strings, so that strip,    *)
(* suffix, lower, replace and startswith are computed as the code computes *)
(* them.  Sheet names are opaque labels.  Amounts are exact decimals       *)
(* [mant, scale] (value = mant / 10^scale, kept normalised); binary        *)
(* floating-point rounding of sums is not modelled.                        *)
(***************************************************************************)
EXTENDS Integers, Sequences, FiniteSets, TLC

VARIABLES arquivos, pc, idx, todos_resultados, df_final, df_por_arquivo,
          total_entrada_geral, total_saida_geral, csv_export, diags, chamadas,
          df, resultado, cell, valor

vars == <<arquivos, pc, idx, todos_resultados, df_final, df_por_arquivo,
          total_entrada_geral, total_saida_geral, csv_export, diags, chamadas,
          df, resultado, cell, valor>>

pipeVars == <<arquivos, pc, idx, todos_resultados, df_final, df_por_arquivo,
              total_entrada_geral, total_saida_geral, csv_export, diags, chamadas>>

sheetVars == <<df, resultado>>

cellVars == <<cell, valor>>

\* ---------------------------------------------------------------- bounds
MaxFiles == 3

MaxRows == 2

MaxCellLen == 8

\* ------------------------------------------------------- text primitives
Whitespace == {" ", "\t"}

Digits == {"0", "1", "2", "3", "4", "5", "6", "7", "8", "9"}

DigitVal == ("0" :> 0) @@ ("1" :> 1) @@ ("2" :> 2) @@ ("3" :> 3) @@ ("4" :> 4) @@
            ("5" :> 5) @@ ("6" :> 6) @@ ("7" :> 7) @@ ("8" :> 8) @@ ("9" :> 9)

DigitChar == <<"0", "1", "2", "3", "4", "5", "6", "7", "8", "9">>

\* code points of the characters that occur in file names
Ord == ("." :> 46) @@ ("C" :> 67) @@ ("S" :> 83) @@ ("V" :> 86) @@ ("B" :> 66) @@
       ("a" :> 97) @@ ("b" :> 98) @@ ("c" :> 99) @@ ("d" :> 100) @@ ("l" :> 108) @@
       ("s" :> 115) @@ ("t" :> 116) @@ ("v" :> 118) @@ ("x" :> 120)

UpperToLower == ("B" :> "b") @@ ("C" :> "c") @@ ("S" :> "s") @@ ("V" :> "v")

\* str.lower()
Lower(s) == [i \in 1..Len(s) |-> IF s[i] \in DOMAIN UpperToLower THEN UpperToLower[s[i]] ELSE s[i]]

RECURSIVE LStrip(_)
LStrip(s) == IF s # <<>> /\ Head(s) \in Whitespace THEN LStrip(Tail(s)) ELSE s

RECURSIVE RStrip(_)
RStrip(s) == IF s # <<>> /\ s[Len(s)] \in Whitespace THEN RStrip(SubSeq(s, 1, Len(s) - 1)) ELSE s

\* str.strip()
Strip(s) == RStrip(LStrip(s))

\* str.startswith(tuple of prefixes)
StartsWith(s, prefixes) == \E p \in prefixes : Len(p) <= Len(s) /\ SubSeq(s, 1, Len(p)) = p

\* str.rfind("."), 1-based; 0 when absent
RFindDot(s) == IF \E i \in 1..Len(s) : s[i] = "."
               THEN CHOOSE i \in 1..Len(s) : s[i] = "." /\ \A j \in (i + 1)..Len(s) : s[j] # "."
               ELSE 0

\* Path(filename).suffix
Suffix(name) == LET i == RFindDot(name)
                IN  IF 1 < i /\ i < Len(name) THEN SubSeq(name, i, Len(name)) ELSE <<>>

\* Python's ordering of str (by code point, shorter prefix first)
RECURSIVE StrLess(_, _)
StrLess(a, b) == IF b = <<>> THEN FALSE
                 ELSE IF a = <<>> THEN TRUE
                 ELSE IF Head(a) = Head(b) THEN StrLess(Tail(a), Tail(b))
                 ELSE Ord[Head(a)] < Ord[Head(b)]

\* ------------------------------------------------------------- decimals
RECURSIVE Pow10(_)
Pow10(n) == IF n = 0 THEN 1 ELSE 10 * Pow10(n - 1)

RECURSIVE NormDec(_)
NormDec(d) == IF d.scale > 0 /\ d.mant % 10 = 0
              THEN NormDec([mant |-> d.mant \div 10, scale |-> d.scale - 1])
              ELSE d

Zero == [mant |-> 0, scale |-> 0]

DecAdd(a, b) == LET s == IF a.scale > b.scale THEN a.scale ELSE b.scale
                IN  NormDec([mant |-> a.mant * Pow10(s - a.scale) + b.mant * Pow10(s - b.scale),
                             scale |-> s])

\* Series.sum()
RECURSIVE SumDec(_)
SumDec(xs) == IF xs = <<>> THEN Zero ELSE DecAdd(Head(xs), SumDec(Tail(xs)))

RECURSIVE DigitsToInt(_)
DigitsToInt(ds) == IF ds = <<>> THEN 0
                   ELSE 10 * DigitsToInt(SubSeq(ds, 1, Len(ds) - 1)) + DigitVal[ds[Len(ds)]]

RECURSIVE IntToDigits(_)
IntToDigits(n) == IF n < 10 THEN <<DigitChar[n + 1]>>
                  ELSE IntToDigits(n \div 10) \o <<DigitChar[(n % 10) + 1]>>

\* ------------------------------------------------- amount normalisation
RECURSIVE RemoveAll(_, _)
RemoveAll(s, drop) == IF s = <<>> THEN <<>>
                      ELSE IF Head(s) \in drop THEN RemoveAll(Tail(s), drop)
                      ELSE <<Head(s)>> \o RemoveAll(Tail(s), drop)

\* .str.replace(r"\.", "", regex=True)
RemovePeriods(s) == RemoveAll(s, {"."})

\* .str.replace(",", ".", regex=False)
CommaToPeriod(s) == [i \in 1..Len(s) |-> IF s[i] = "," THEN "." ELSE s[i]]

\* .str.replace(r"[^\d\.-]", "", regex=True)
RECURSIVE KeepNumeric(_)
KeepNumeric(s) == IF s = <<>> THEN <<>>
                  ELSE IF Head(s) \in Digits \cup {".", "-"}
                       THEN <<Head(s)>> \o KeepNumeric(Tail(s))
                       ELSE KeepNumeric(Tail(s))

LimpaValorSwapped(s) == KeepNumeric(RemovePeriods(CommaToPeriod(s)))

\* the three chained replaces of lines 107-112
LimpaValor(s) == KeepNumeric(CommaToPeriod(RemovePeriods(s)))

\* does the cleaned text parse as a decimal number:  -?(d+ | d+.d* | .d+)
Parseable(s) == LET body == IF s # <<>> /\ Head(s) = "-" THEN Tail(s) ELSE s
                    dots == {i \in 1..Len(body) : body[i] = "."}
                IN  /\ \A i \in 1..Len(body) : body[i] \in Digits \cup {"."}
                    /\ Cardinality(dots) <= 1
                    /\ \E i \in 1..Len(body) : body[i] \in Digits

ParseDec(s) == LET neg  == s # <<>> /\ Head(s) = "-"
                   body == IF neg THEN Tail(s) ELSE s
                   dot  == RFindDot(body)
                   ip   == IF dot = 0 THEN body ELSE SubSeq(body, 1, dot - 1)
                   fp   == IF dot = 0 THEN <<>> ELSE SubSeq(body, dot + 1, Len(body))
                   m    == DigitsToInt(ip \o fp)
               IN  NormDec([mant |-> IF neg THEN 0 - m ELSE m, scale |-> Len(fp)])

\* pd.to_numeric(..., errors="coerce").fillna(0.0) on one cell
ToNumericOrZero(s) == IF Parseable(s) THEN ParseDec(s) ELSE Zero

\* ---------------------------------------------------------------- cells
\* a cell of a sheet as the reader returns it: text, a number, or missing
Txt(s) == [t |-> "txt", s |-> s, v |-> Zero]

Num(m, sc) == [t |-> "num", s |-> <<>>, v |-> NormDec([mant |-> m, scale |-> sc])]

NaN == [t |-> "nan", s |-> <<>>, v |-> Zero]

RECURSIVE PadZeros(_, _)
PadZeros(ds, n) == IF Len(ds) >= n THEN ds ELSE PadZeros(<<"0">> \o ds, n)

\* str() of a number: "15" for an int, "10.5" for a float with a fraction
DecRepr(d) == LET a   == IF d.mant < 0 THEN 0 - d.mant ELSE d.mant
                  ds  == PadZeros(IntToDigits(a), d.scale + 1)
                  sgn == IF d.mant < 0 THEN <<"-">> ELSE <<>>
              IN  IF d.scale = 0 THEN sgn \o ds
                  ELSE sgn \o SubSeq(ds, 1, Len(ds) - d.scale) \o <<".">>
                           \o SubSeq(ds, Len(ds) - d.scale + 1, Len(ds))

\* Series.astype(str) on one cell
AsStr(c) == IF c.t = "txt" THEN c.s
            ELSE IF c.t = "nan" THEN <<"n", "a", "n">>
            ELSE DecRepr(c.v)

\* ---------------------------------------------------- processar_dataframe
CFOP == <<"C", "F", "O", "P">>

VALOR_NF == <<"V", "a", "l", "o", "r", " ", "N", "F">>

colunas_necessarias == {CFOP, VALOR_NF}

Range(f) == {f[i] : i \in DOMAIN f}

\* df.rename(columns=lambda x: str(x).strip())
RenameStrip(d) == [d EXCEPT !.columns = [i \in 1..Len(d.columns) |-> Strip(d.columns[i])]]

FaltantesSemStrip(d) == colunas_necessarias \ Range(d.columns)

\* colunas_necessarias - set(df.columns), after the rename
Faltantes(d) == colunas_necessarias \ Range(RenameStrip(d).columns)

\* df[name]: the cells of the column called name (after the rename)
Coluna(d, name) == LET r == RenameStrip(d)
                       i == CHOOSE k \in 1..Len(r.columns) : r.columns[k] = name
                   IN  [k \in 1..Len(r.rows) |-> r.rows[k][i]]

\* df["CFOP"].astype(str).str.strip()
CfopTexto(col) == [k \in 1..Len(col) |-> Strip(AsStr(col[k]))]

\* pd.api.types.is_numeric_dtype: a column of numbers and gaps only
IsNumericDtype(col) == Len(col) > 0 /\ \A k \in 1..Len(col) : col[k].t \in {"num", "nan"}

\* lines 102-113: the amount column as numbers
ValorNumerico(col) ==
    IF IsNumericDtype(col)
    THEN [k \in 1..Len(col) |-> IF col[k].t = "nan" THEN Zero ELSE col[k].v]
    ELSE [k \in 1..Len(col) |-> ToNumericOrZero(LimpaValor(AsStr(col[k])))]

MaskEntradaWide(code) == StartsWith(code, {<<"1">>, <<"2">>, <<"3">>, <<"4">>})

MaskEntrada(code) == StartsWith(code, {<<"1">>, <<"2">>, <<"3">>})

MaskSaida(code) == StartsWith(code, {<<"5">>, <<"6">>, <<"7">>})

\* df.loc[mask, "Valor NF"]
RECURSIVE Loc(_, _, _)
Loc(mask, vals, k) == IF k > Len(vals) THEN <<>>
                      ELSE (IF mask[k] THEN <<vals[k]>> ELSE <<>>) \o Loc(mask, vals, k + 1)

Registro(arquivo, sheet, te, ts) ==
    [arquivo |-> arquivo, sheet |-> sheet, total_entrada |-> te, total_saida |-> ts]

Diag(sev, msg, arquivo, sheet, detalhe) ==
    [sev |-> sev, msg |-> msg, arquivo |-> arquivo, sheet |-> sheet, detalhe |-> detalhe]

ProcessarDataframeDropDegraded(d, arquivo, sheet) ==
    IF Faltantes(d) # {}
    THEN [res |-> <<>>,
          diags |-> <<Diag("warning", "faltam colunas", arquivo, sheet, Faltantes(d))>>]
    ELSE LET cfop == CfopTexto(Coluna(d, CFOP))
             vnf  == ValorNumerico(Coluna(d, VALOR_NF))
         IN  [res |-> <<Registro(arquivo, sheet,
                                 SumDec(Loc([k \in 1..Len(cfop) |-> MaskEntrada(cfop[k])], vnf, 1)),
                                 SumDec(Loc([k \in 1..Len(cfop) |-> MaskSaida(cfop[k])], vnf, 1)))>>,
              diags |-> <<>>]

\* processar_dataframe: the one-row DataFrame returned and the diagnostics emitted
ProcessarDataframe(d, arquivo, sheet) ==
    IF Faltantes(d) # {}
    THEN [res |-> <<Registro(arquivo, sheet, Zero, Zero)>>,
          diags |-> <<Diag("warning", "faltam colunas", arquivo, sheet, Faltantes(d))>>]
    ELSE LET cfop == CfopTexto(Coluna(d, CFOP))
             vnf  == ValorNumerico(Coluna(d, VALOR_NF))
             mask_entrada == [k \in 1..Len(cfop) |-> MaskEntrada(cfop[k])]
             mask_saida   == [k \in 1..Len(cfop) |-> MaskSaida(cfop[k])]
             total_entrada == SumDec(Loc(mask_entrada, vnf, 1))
             total_saida   == SumDec(Loc(mask_saida, vnf, 1))
         IN  [res |-> <<Registro(arquivo, sheet, total_entrada, total_saida)>>,
              diags |-> <<>>]

\* ------------------------------------------------------ processar_arquivo
\* pd.read_excel(..., sheet_name=None, engine="openpyxl"): the sheets in
\* workbook order; openpyxl raises on anything that is not an OOXML workbook
ReadExcel(f) == IF f.fmt = "ooxml" /\ f.sheets # <<>>
                THEN [raised |-> FALSE, sheets |-> f.sheets]
                ELSE [raised |-> TRUE, sheets |-> <<>>]

\* pd.read_csv(..., skiprows=17, sep=None, engine="python"): one table;
\* raises on undecodable bytes and when nothing is left after the skipped rows
ReadCsv(f) == IF f.fmt = "text" /\ f.sheets # <<>>
              THEN [raised |-> FALSE, sheets |-> <<[f.sheets[1] EXCEPT !.nome = "CSV"]>>]
              ELSE [raised |-> TRUE, sheets |-> <<>>]

Vazio == [res |-> <<>>, diags |-> <<>>, calls |-> <<>>]

RECURSIVE ProcessaSheetsReversed(_, _)
ProcessaSheetsReversed(sheets, filename) ==
    IF sheets = <<>> THEN Vazio
    ELSE LET r    == ProcessarDataframe(Head(sheets), filename, Head(sheets).nome)
             rest == ProcessaSheetsReversed(Tail(sheets), filename)
         IN  [res   |-> rest.res \o r.res,
              diags |-> <<r.diags>> \o rest.diags,
              calls |-> <<<<filename, Head(sheets).nome>>>> \o rest.calls]

\* lines 51-53 / 64-65: one processar_dataframe call per sheet, results
\* appended in iteration order; diags holds one entry per call
RECURSIVE ProcessaSheets(_, _)
ProcessaSheets(sheets, filename) ==
    IF sheets = <<>> THEN Vazio
    ELSE LET r    == ProcessarDataframe(Head(sheets), filename, Head(sheets).nome)
             rest == ProcessaSheets(Tail(sheets), filename)
         IN  [res   |-> r.res \o rest.res,
              diags |-> <<r.diags>> \o rest.diags,
              calls |-> <<<<filename, Head(sheets).nome>>>> \o rest.calls]

RECURSIVE Flatten(_)
Flatten(ss) == IF ss = <<>> THEN <<>> ELSE Head(ss) \o Flatten(Tail(ss))

ExtOfCaseSensitive(filename) == Suffix(filename)

\* Path(filename).suffix.lower()
ExtOf(filename) == Lower(Suffix(filename))

EXT_XLSX == <<".", "x", "l", "s", "x">>

EXT_XLS == <<".", "x", "l", "s">>

EXT_CSV == <<".", "c", "s", "v">>

\* processar_arquivo: the DataFrame returned (a sequence of records, empty
\* for pd.DataFrame()), the diagnostics, the calls made, or an exception
ProcessarArquivo(f) ==
    LET ext == ExtOf(f.name)
        rd  == IF ext \in {EXT_XLSX, EXT_XLS} THEN ReadExcel(f) ELSE ReadCsv(f)
        r   == ProcessaSheets(rd.sheets, f.name)
    IN  IF ext \in {EXT_XLSX, EXT_XLS, EXT_CSV}
        THEN IF rd.raised
             THEN [raised |-> TRUE, df |-> <<>>, diags |-> <<>>, calls |-> <<>>]
             ELSE [raised |-> FALSE, df |-> r.res, diags |-> Flatten(r.diags), calls |-> r.calls]
        ELSE [raised |-> FALSE, df |-> <<>>,
              diags |-> <<Diag("error", "formato nao suportado", f.name, "", {ext})>>,
              calls |-> <<>>]

\* ------------------------------------------------------------ aggregation
RECURSIVE SortKeys(_)
SortKeys(S) == IF S = {} THEN <<>>
               ELSE LET m == CHOOSE x \in S : \A y \in S \ {x} : StrLess(x, y)
                    IN  <<m>> \o SortKeys(S \ {m})

RECURSIVE FirstSeenKeys(_)
FirstSeenKeys(recs) ==
    IF recs = <<>> THEN <<>>
    ELSE LET init == FirstSeenKeys(SubSeq(recs, 1, Len(recs) - 1))
             k    == recs[Len(recs)].arquivo
         IN  IF k \in Range(init) THEN init ELSE Append(init, k)

ColEntrada(recs) == [i \in 1..Len(recs) |-> recs[i].total_entrada]

ColSaida(recs) == [i \in 1..Len(recs) |-> recs[i].total_saida]

DoArquivo(recs, k) == SelectSeq(recs, LAMBDA r : r.arquivo = k)

Agregado(recs, k) ==
    [arquivo |-> k,
     soma_entrada_no_arquivo |-> SumDec(ColEntrada(DoArquivo(recs, k))),
     soma_saida_no_arquivo   |-> SumDec(ColSaida(DoArquivo(recs, k)))]

GroupByFirstSeen(recs) ==
    LET keys == FirstSeenKeys(recs)
    IN  [i \in 1..Len(keys) |-> Agregado(recs, keys[i])]

\* df_final.groupby("arquivo", as_index=False).agg(sum).rename(...):
\* groupby sorts the group keys (sort=True is the default)
GroupBy(recs) ==
    LET keys == SortKeys({recs[i].arquivo : i \in 1..Len(recs)})
    IN  [i \in 1..Len(keys) |-> Agregado(recs, keys[i])]

TotalGeralFirstOnly(col) == IF col = <<>> THEN Zero ELSE Head(col)

\* df_final[col].sum()
TotalGeral(col) == SumDec(col)

\* df_final.to_csv(index=False)
ToCsv(recs) ==
    [header |-> <<"arquivo", "sheet", "total_entrada", "total_saida">>,
     linhas |-> [i \in 1..Len(recs) |->
                   <<recs[i].arquivo, recs[i].sheet, recs[i].total_entrada, recs[i].total_saida>>]]

\* ------------------------------------------------------ inputs of the run
SheetBom ==
    [nome |-> "Plan1", columns |-> <<CFOP, VALOR_NF>>,
     rows |-> << <<Txt(<<"1", "1", "0", "2">>), Txt(<<"1", ".", "5", "0", "0", ",", "0", "0">>)>>,
                 <<Txt(<<"5", "1", "0", "2">>), Txt(<<"7", "5", "0", ",", "5", "0">>)>>,
                 <<Txt(<<"9", "9", "9", "9">>), Txt(<<"1", "0", "0", ",", "0", "0">>)>> >>]

SheetSemValor ==
    [nome |-> "Plan2", columns |-> <<<<"D", "a", "t", "a">>, CFOP>>,
     rows |-> << <<Txt(<<"x">>), Txt(<<"1", "1", "0", "2">>)>> >>]

SheetNumerico ==
    [nome |-> "Plan1", columns |-> <<<<" ">> \o CFOP \o <<" ">>, VALOR_NF \o <<"\t">>>>,
     rows |-> << <<Txt(<<" ", "2", "1", "0", "1">>), Num(200, 0)>>,
                 <<Txt(<<"6", "1", "0", "1", " ">>), NaN>>,
                 <<NaN, Num(5, 0)>>,
                 <<Txt(<<"7">>), Num(1050, 2)>>,
                 <<Txt(<<"3", "9">>), Num(0 - 25, 1)>> >>]

SheetMisto ==
    [nome |-> "Sheet1", columns |-> <<VALOR_NF, CFOP>>,
     rows |-> << <<Num(105, 1), Txt(<<"1">>)>>,
                 <<Txt(<<"R", "$", " ", "2", ",", "5", "0">>), Txt(<<"5">>)>>,
                 <<Txt(<<"1", ".", "2", ".", "3">>), Txt(<<"2">>)>>,
                 <<Txt(<<"-", "4", ",", "2", "5">>), Txt(<<"6", "x">>)>> >>]

SheetSemColunas ==
    [nome |-> "Sheet1", columns |-> <<<<"D", "a", "t", "a">>>>, rows |-> <<>>]

Arquivo(name, fmt, sheets) == [name |-> name, fmt |-> fmt, sheets |-> sheets]

Catalogo ==
    { Arquivo(<<"b", ".", "x", "l", "s", "x">>, "ooxml", <<SheetBom, SheetSemValor>>),
      Arquivo(<<"a", ".", "x", "l", "s", "x">>, "ooxml", <<SheetNumerico>>),
      Arquivo(<<"b", ".", "x", "l", "s", "x">>, "ooxml", <<SheetNumerico>>),
      Arquivo(<<"B", ".", "C", "S", "V">>, "text", <<SheetMisto>>),
      Arquivo(<<"a", ".", "c", "s", "v">>, "text", <<SheetSemColunas>>),
      Arquivo(<<"c", ".", "t", "x", "t">>, "text", <<SheetBom>>),
      Arquivo(<<"d", ".", "x", "l", "s">>, "biff", <<SheetBom>>) }

SeqsUpTo(S, n) == UNION {[1..k -> S] : k \in 0..n}

\* ------------------------------------------------------------ the script
InitOutros ==
    /\ df = [nome |-> "Plan1", columns |-> <<CFOP, VALOR_NF>>, rows |-> <<>>]
    /\ resultado = <<>>
    /\ cell = <<>>
    /\ valor = <<>>

InitPipe(fs) ==
    /\ arquivos = fs
    /\ pc = "start"
    /\ idx = 0
    /\ todos_resultados = <<>>
    /\ df_final = <<>>
    /\ df_por_arquivo = <<>>
    /\ total_entrada_geral = <<>>
    /\ total_saida_geral = <<>>
    /\ csv_export = <<>>
    /\ diags = <<>>
    /\ chamadas = <<>>

Init == (\E fs \in SeqsUpTo(Catalogo, MaxFiles) : InitPipe(fs)) /\ InitOutros

AvisoSemArquivosInfo == Diag("info", "sem arquivos", <<>>, "", {})

\* st.warning("Faca o upload de ao menos um arquivo ...")
AvisoSemArquivos == Diag("warning", "sem arquivos", <<>>, "", {})

\* lines 139-141: nothing uploaded, warn and st.stop()
SemArquivos ==
    /\ pc = "start"
    /\ arquivos = <<>>
    /\ diags' = Append(diags, AvisoSemArquivos)
    /\ pc' = "stopped"
    /\ UNCHANGED <<arquivos, idx, todos_resultados, df_final, df_por_arquivo,
                   total_entrada_geral, total_saida_geral, csv_export, chamadas>>
    /\ UNCHANGED <<sheetVars, cellVars>>

\* line 144, button not pressed: the script ends without doing anything
BotaoNaoPressionado ==
    /\ pc = "start"
    /\ arquivos # <<>>
    /\ pc' = "ocioso"
    /\ UNCHANGED <<arquivos, idx, todos_resultados, df_final, df_por_arquivo,
                   total_entrada_geral, total_saida_geral, csv_export, diags, chamadas>>
    /\ UNCHANGED <<sheetVars, cellVars>>

\* lines 144-146: button pressed
BotaoPressionado ==
    /\ pc = "start"
    /\ arquivos # <<>>
    /\ todos_resultados' = <<>>
    /\ idx' = 1
    /\ pc' = "loop"
    /\ UNCHANGED <<arquivos, df_final, df_por_arquivo,
                   total_entrada_geral, total_saida_geral, csv_export, diags, chamadas>>
    /\ UNCHANGED <<sheetVars, cellVars>>

\* lines 148-158: one iteration of the loop over the uploaded files
ProcessaArquivo ==
    /\ pc = "loop"
    /\ idx <= Len(arquivos)
    /\ LET df_res == ProcessarArquivo(arquivos[idx])
       IN  IF df_res.raised
           THEN /\ pc' = "raised"
                /\ UNCHANGED <<idx, todos_resultados, diags, chamadas>>
           ELSE /\ todos_resultados' = IF df_res.df # <<>>
                                       THEN Append(todos_resultados, df_res.df)
                                       ELSE todos_resultados
                /\ diags' = diags \o df_res.diags
                /\ chamadas' = chamadas \o df_res.calls
                /\ idx' = idx + 1
                /\ pc' = "loop"
    /\ UNCHANGED <<arquivos, df_final, df_por_arquivo,
                   total_entrada_geral, total_saida_geral, csv_export>>
    /\ UNCHANGED <<sheetVars, cellVars>>

\* lines 161-175: pd.concat of the per-file results, or the empty table
Concatena ==
    /\ pc = "loop"
    /\ idx > Len(arquivos)
    /\ df_final' = <<Flatten(todos_resultados)>>
    /\ pc' = "agrupa"
    /\ UNCHANGED <<arquivos, idx, todos_resultados, df_por_arquivo,
                   total_entrada_geral, total_saida_geral, csv_export, diags, chamadas>>
    /\ UNCHANGED <<sheetVars, cellVars>>

\* lines 180-200: the per-file table, or st.info when there is nothing to group
Agrupa ==
    /\ pc = "agrupa"
    /\ IF df_final[1] # <<>>
       THEN /\ df_por_arquivo' = <<GroupBy(df_final[1])>>
            /\ UNCHANGED diags
       ELSE /\ diags' = Append(diags, Diag("info", "nenhum resultado", <<>>, "", {}))
            /\ UNCHANGED df_por_arquivo
    /\ pc' = "totais"
    /\ UNCHANGED <<arquivos, idx, todos_resultados, df_final,
                   total_entrada_geral, total_saida_geral, csv_export, chamadas>>
    /\ UNCHANGED <<sheetVars, cellVars>>

\* lines 205-211
TotaisGerais ==
    /\ pc = "totais"
    /\ total_entrada_geral' = <<TotalGeral(ColEntrada(df_final[1]))>>
    /\ total_saida_geral' = <<TotalGeral(ColSaida(df_final[1]))>>
    /\ pc' = "exporta"
    /\ UNCHANGED <<arquivos, idx, todos_resultados, df_final, df_por_arquivo,
                   csv_export, diags, chamadas>>
    /\ UNCHANGED <<sheetVars, cellVars>>

\* lines 216-222
Exporta ==
    /\ pc = "exporta"
    /\ csv_export' = <<ToCsv(df_final[1])>>
    /\ pc' = "done"
    /\ UNCHANGED <<arquivos, idx, todos_resultados, df_final, df_por_arquivo,
                   total_entrada_geral, total_saida_geral, diags, chamadas>>
    /\ UNCHANGED <<sheetVars, cellVars>>

Next ==
    \/ SemArquivos
    \/ BotaoNaoPressionado
    \/ BotaoPressionado
    \/ ProcessaArquivo
    \/ Concatena
    \/ Agrupa
    \/ TotaisGerais
    \/ Exporta

Spec == Init /\ [][Next]_vars

\* ----------------------------------- one sheet, built row by row (SpecSheet)
PrimeirosChars == {"1", "2", "3", "4", "5", "6", "7", "8", "9", "x"}

\* CFOP cells: empty, a single character, a padded two-character code, missing
Codigos == {Txt(<<>>), NaN} \cup {Txt(<<c>>) : c \in PrimeirosChars}
                            \cup {Txt(<<" ", c, "5">>) : c \in PrimeirosChars}

\* Valor NF cells: "1,5", the number 2, missing
Valores == {Txt(<<"1", ",", "5">>), Num(2, 0), NaN}

NomeSheet == <<"a", ".", "x", "l", "s", "x">>

InitSheet == InitPipe(<<>>) /\ InitOutros

AdicionaLinha ==
    /\ resultado = <<>>
    /\ Len(df.rows) < MaxRows
    /\ \E c \in Codigos, v \in Valores : df' = [df EXCEPT !.rows = Append(@, <<c, v>>)]
    /\ UNCHANGED <<resultado, pipeVars, cellVars>>

\* processar_dataframe applied to the sheet
Classifica ==
    /\ resultado = <<>>
    /\ resultado' = ProcessarDataframe(df, NomeSheet, df.nome).res
    /\ UNCHANGED <<df, pipeVars, cellVars>>

NextSheet == AdicionaLinha \/ Classifica

SpecSheet == InitSheet /\ [][NextSheet]_vars

\* ------------------------- one textual amount cell, typed in (SpecCell)
Teclas == {"1", ".", ",", "-", "R"}

InitCell == InitPipe(<<>>) /\ InitOutros

Digita ==
    /\ valor = <<>>
    /\ Len(cell) < MaxCellLen
    /\ \E c \in Teclas : cell' = Append(cell, c)
    /\ UNCHANGED <<valor, pipeVars, sheetVars>>

\* the textual branch of lines 105-113 applied to a one-cell column
Normaliza ==
    /\ valor = <<>>
    /\ valor' = ValorNumerico(<<Txt(cell)>>)
    /\ UNCHANGED <<cell, pipeVars, sheetVars>>

NextCell == Digita \/ Normaliza

SpecCell == InitCell /\ [][NextCell]_vars

\* ===================================================== properties checked
\* helpers used only to state the properties
Rotulos(recs) == [i \in 1..Len(recs) |-> <<recs[i].arquivo, recs[i].sheet>>]

Conta(xs, x) == Cardinality({i \in 1..Len(xs) : xs[i] = x})

RECURSIVE SomaEsq(_)
SomaEsq(xs) == IF xs = <<>> THEN Zero
               ELSE DecAdd(SomaEsq(SubSeq(xs, 1, Len(xs) - 1)), xs[Len(xs)])

\* the records collected so far, and the final table once it exists
Coletados == Flatten(todos_resultados)

\* name ends in ext, compared case-insensitively, with something before it
TerminaEm(name, ext) ==
    /\ Len(name) > Len(ext)
    /\ Lower(SubSeq(name, Len(name) - Len(ext) + 1, Len(name))) = ext

EhExcel(f) == TerminaEm(f.name, EXT_XLSX) \/ TerminaEm(f.name, EXT_XLS)

EhCsv(f) == TerminaEm(f.name, EXT_CSV)

Suportado(f) == EhExcel(f) \/ EhCsv(f)

\* the sheets the extraction step returns for a file, with their labels
SheetsDe(f) == IF EhExcel(f) THEN f.sheets
               ELSE IF EhCsv(f) THEN <<[f.sheets[1] EXCEPT !.nome = "CSV"]>>
               ELSE <<>>

RECURSIVE SheetsAte(_)
SheetsAte(n) == IF n = 0 THEN <<>>
                ELSE SheetsAte(n - 1) \o [i \in 1..Len(SheetsDe(arquivos[n])) |->
                                            [arquivo |-> arquivos[n].name,
                                             sheet |-> SheetsDe(arquivos[n])[i]]]

\* files whose loop iteration has completed
Processados == IF pc \in {"start", "stopped", "ocioso"} THEN 0 ELSE idx - 1

\* column name equals c once surrounding whitespace is removed
NomeIgual(col, c) ==
    \E a \in 0..Len(col) : \E b \in 0..(Len(col) - a) :
        /\ SubSeq(col, a + 1, Len(col) - b) = c
        /\ \A i \in 1..a : col[i] \in Whitespace
        /\ \A i \in (Len(col) - b + 1)..Len(col) : col[i] \in Whitespace

FaltamEm(sh) == {c \in colunas_necessarias : \A i \in 1..Len(sh.columns) : ~NomeIgual(sh.columns[i], c)}

\* C1: every sheet handed to processar_dataframe has exactly one record in
\* the run-wide list: per (file, sheet) label the number of records equals
\* the number of calls, and there are no other records.
C1_UmRegistroPorSheet ==
    /\ Len(Coletados) = Len(chamadas)
    /\ \A lab \in Range(chamadas) : Conta(Rotulos(Coletados), lab) = Conta(chamadas, lab)
    /\ df_final # <<>> => df_final[1] = Coletados

C1_Witness ==
    /\ pc = "done"
    /\ \E lab \in Range(chamadas) : Conta(chamadas, lab) = 2
    /\ \E i \in 1..Len(df_final[1]) :
          /\ df_final[1][i].sheet = "Plan2"
          /\ df_final[1][i].total_entrada = Zero
    /\ \E d \in Range(diags) : d.sev = "warning"

\* helpers for the classification of one sheet
PrimeiroChar(c) == LET t == Strip(AsStr(c)) IN IF t = <<>> THEN "" ELSE t[1]

LinhasCom(chars) == {k \in 1..Len(df.rows) : PrimeiroChar(df.rows[k][1]) \in chars}

RECURSIVE SomaLinhas(_, _, _)
SomaLinhas(vals, ks, k) ==
    IF k = 0 THEN Zero
    ELSE DecAdd(SomaLinhas(vals, ks, k - 1), IF k \in ks THEN vals[k] ELSE Zero)

\* C2: in a sheet with both required columns a row is in bucket IN iff the
\* first character of its trimmed code is 1, 2 or 3 and in bucket OUT iff it
\* is 5, 6 or 7, never both; total_entrada and total_saida are the sums of
\* the normalised amounts of the IN rows and of the OUT rows.
C2_BucketsPeloPrimeiroChar ==
    resultado # <<>> =>
        LET vals == ValorNumerico(Coluna(df, VALOR_NF))
            ins  == LinhasCom({"1", "2", "3"})
            outs == LinhasCom({"5", "6", "7"})
        IN  /\ ins \cap outs = {}
            /\ Len(resultado) = 1
            /\ resultado[1].total_entrada = SomaLinhas(vals, ins, Len(df.rows))
            /\ resultado[1].total_saida = SomaLinhas(vals, outs, Len(df.rows))
            /\ \A k \in 1..Len(df.rows) :
                  LET t == Strip(AsStr(df.rows[k][1]))
                  IN  /\ MaskEntrada(t) <=> k \in ins
                      /\ MaskSaida(t) <=> k \in outs

C2_Witness ==
    /\ resultado # <<>>
    /\ Len(df.rows) = 2
    /\ df.rows[1][1] = Txt(<<" ", "3", "5">>)
    /\ df.rows[2][1] = Txt(<<"4">>)
    /\ df.rows[1][2] = Txt(<<"1", ",", "5">>)
    /\ df.rows[2][2] = Num(2, 0)
    /\ resultado[1].total_entrada = [mant |-> 15, scale |-> 1]
    /\ resultado[1].total_saida = Zero

\* helpers for the amount text
Etapa1(s) == SelectSeq(s, LAMBDA c : c # ".")

Etapa2(s) == [i \in 1..Len(s) |-> IF s[i] = "," THEN "." ELSE s[i]]

Etapa3(s) == SelectSeq(s, LAMBDA c : c \in Digits \/ c = "." \/ c = "-")

\* ddd(.ddd)*,dd : counted from the comma leftwards every fourth character
\* is a period and the others are digits
FormaBrasileira(s) ==
    /\ Len(s) >= 4
    /\ s[Len(s) - 2] = ","
    /\ s[Len(s) - 1] \in Digits
    /\ s[Len(s)] \in Digits
    /\ LET n == Len(s) - 3
       IN  /\ n % 4 # 0
           /\ \A i \in 1..n : IF (n - i + 1) % 4 = 0 THEN s[i] = "." ELSE s[i] \in Digits

\* the digits read as an integer number of hundredths
ValorBrasileiro(s) ==
    NormDec([mant |-> DigitsToInt(SelectSeq(s, LAMBDA c : c \in Digits)), scale |-> 2])

\* C3: a textual amount cell is normalised by removing every period, then
\* turning every comma into a period, then removing every character that
\* is not a digit, period or minus sign; the result is parsed as a decimal
\* and a cell that does not parse is 0; a cell of the form ddd(.ddd)*,dd
\* gets the value read with thousands periods and a decimal comma.
C3_NormalizacaoDoValor ==
    valor # <<>> =>
        /\ Len(valor) = 1
        /\ valor[1] = ToNumericOrZero(Etapa3(Etapa2(Etapa1(cell))))
        /\ ~Parseable(Etapa3(Etapa2(Etapa1(cell)))) => valor[1] = Zero
        /\ FormaBrasileira(cell) => valor[1] = ValorBrasileiro(cell)

C3_Witness ==
    /\ cell = <<"1", ".", "1", "1", "1", ",", "1", "1">>
    /\ valor = <<[mant |-> 111111, scale |-> 2]>>

\* C4: once the totals are computed there is one grand total, equal to the
\* sums of total_entrada and total_saida over the records and to the sums
\* of soma_entrada_no_arquivo and soma_saida_no_arquivo over the aggregates.
C4_TotaisGerais ==
    pc \in {"exporta", "done"} =>
        LET recs == df_final[1]
            aggs == IF df_por_arquivo = <<>> THEN <<>> ELSE df_por_arquivo[1]
        IN  /\ Len(total_entrada_geral) = 1
            /\ Len(total_saida_geral) = 1
            /\ total_entrada_geral[1] = SomaEsq(ColEntrada(recs))
            /\ total_saida_geral[1] = SomaEsq(ColSaida(recs))
            /\ total_entrada_geral[1] =
                 SomaEsq([i \in 1..Len(aggs) |-> aggs[i].soma_entrada_no_arquivo])
            /\ total_saida_geral[1] =
                 SomaEsq([i \in 1..Len(aggs) |-> aggs[i].soma_saida_no_arquivo])

C4_Witness ==
    /\ pc = "done"
    /\ Len(df_final[1]) >= 3
    /\ df_por_arquivo # <<>>
    /\ Len(df_por_arquivo[1]) >= 2
    /\ \E i \in 1..Len(df_final[1]) : df_final[1][i].total_entrada # total_entrada_geral[1]
    /\ total_entrada_geral[1].mant > 0
    /\ total_saida_geral[1].mant > 0

\* helpers for the file-level table
ChavesAgg == [i \in 1..Len(df_por_arquivo[1]) |-> df_por_arquivo[1][i].arquivo]

AggsCertos ==
    LET recs == df_final[1]
        aggs == df_por_arquivo[1]
    IN  /\ Range(ChavesAgg) = {recs[i].arquivo : i \in 1..Len(recs)}
        /\ Len(aggs) = Cardinality(Range(ChavesAgg))
        /\ \A i \in 1..Len(aggs) :
              /\ aggs[i].soma_entrada_no_arquivo =
                   SomaEsq(ColEntrada(SelectSeq(recs, LAMBDA r : r.arquivo = aggs[i].arquivo)))
              /\ aggs[i].soma_saida_no_arquivo =
                   SomaEsq(ColSaida(SelectSeq(recs, LAMBDA r : r.arquivo = aggs[i].arquivo)))

\* C5 as stated: one aggregate per distinct file label with the sums of its
\* records, listed in first-seen order of the label in the record list.
C5_OrdemDePrimeiraOcorrencia ==
    df_por_arquivo # <<>> => AggsCertos /\ ChavesAgg = FirstSeenKeys(df_final[1])

\* C5 amended: one aggregate per distinct file label with the sums of its
\* records, listed in ascending order of the file label.
C5_OrdemCrescente ==
    df_por_arquivo # <<>> =>
        /\ AggsCertos
        /\ \A i \in 1..Len(ChavesAgg) : \A j \in (i + 1)..Len(ChavesAgg) :
              StrLess(ChavesAgg[i], ChavesAgg[j])

C5_Witness ==
    /\ pc = "done"
    /\ df_por_arquivo # <<>>
    /\ Len(df_por_arquivo[1]) >= 2
    /\ Len(df_final[1]) > Len(df_por_arquivo[1])
    /\ ChavesAgg # FirstSeenKeys(df_final[1])
    /\ \E i, j \in 1..Len(arquivos) : i # j /\ arquivos[i].name = arquivos[j].name

\* C6: the record list follows the input: files in upload order, within a
\* file the sheets in the order the extraction returned them, and no
\* record of a later file before a record of an earlier one.
C6_OrdemDosRegistros ==
    LET esperado == [i \in 1..Len(SheetsAte(Processados)) |->
                       <<SheetsAte(Processados)[i].arquivo, SheetsAte(Processados)[i].sheet.nome>>]
    IN  /\ Rotulos(Coletados) = esperado
        /\ df_final # <<>> => Processados = Len(arquivos) /\ Rotulos(df_final[1]) = esperado

C6_Witness ==
    /\ pc = "done"
    /\ Len(arquivos) = 3
    /\ Len(arquivos[2].sheets) = 2
    /\ arquivos[1].name # arquivos[2].name
    /\ Rotulos(df_final[1]) = << <<arquivos[1].name, "CSV">>,
                                 <<arquivos[2].name, "Plan1">>,
                                 <<arquivos[2].name, "Plan2">>,
                                 <<arquivos[3].name, "Plan1">> >>

\* helpers for the diagnostics
DiagsDe(sev) == SelectSeq(diags, LAMBDA d : d.sev = sev)

AvisosEsperados ==
    LET shs == SelectSeq(SheetsAte(Processados), LAMBDA x : FaltamEm(x.sheet) # {})
    IN  [i \in 1..Len(shs) |->
           Diag("warning", "faltam colunas", shs[i].arquivo, shs[i].sheet.nome, FaltamEm(shs[i].sheet))]

\* C7: a sheet lacking a required column (after trimming the column names)
\* gives a record with both totals 0.0 and exactly one warning naming the
\* missing columns; the run goes on and every other record is what its
\* own sheet gives.
C7_ColunasFaltantes ==
    LET shs == SheetsAte(Processados)
    IN  /\ SelectSeq(diags, LAMBDA d : d.msg = "faltam colunas") = AvisosEsperados
        /\ Len(Coletados) = Len(shs)
        /\ \A i \in 1..Len(shs) :
              IF FaltamEm(shs[i].sheet) # {}
              THEN Coletados[i] = Registro(shs[i].arquivo, shs[i].sheet.nome, Zero, Zero)
              ELSE <<Coletados[i]>> = ProcessarDataframe(shs[i].sheet, shs[i].arquivo, shs[i].sheet.nome).res
        /\ pc = "raised" => arquivos[idx].fmt = "biff"

C7_Witness ==
    /\ pc = "done"
    /\ Len(df_final[1]) = 4
    /\ df_final[1][2].sheet = "Plan2"
    /\ df_final[1][2].total_entrada = Zero
    /\ df_final[1][2].total_saida = Zero
    /\ df_final[1][3].sheet = "CSV"
    /\ df_final[1][3].total_entrada = Zero
    /\ df_final[1][4].total_entrada.mant > 0
    /\ Len(DiagsDe("warning")) = 2
    /\ DiagsDe("warning")[1].detalhe = {VALOR_NF}
    /\ DiagsDe("warning")[2].detalhe = {CFOP, VALOR_NF}

NaoSuportadosAte(n) == SelectSeq(SubSeq(arquivos, 1, n), LAMBDA f : ~Suportado(f))

RECURSIVE RegistrosDe(_)
RegistrosDe(fs) == IF fs = <<>> THEN <<>>
                   ELSE ProcessarArquivo(Head(fs)).df \o RegistrosDe(Tail(fs))

\* C8: a file whose extension is not .xlsx, .xls or .csv (whatever the
\* case) gives exactly one error diagnostic and no record, no aggregate and
\* nothing in the totals; the other files are processed as if it were absent.
C8_ExtensaoNaoSuportada ==
    LET ruins == NaoSuportadosAte(Processados)
        bons  == SelectSeq(SubSeq(arquivos, 1, Processados), Suportado)
    IN  /\ Len(DiagsDe("error")) = Len(ruins)
        /\ \A i \in 1..Len(ruins) : DiagsDe("error")[i].arquivo = ruins[i].name
        /\ \A i \in 1..Len(ruins) :
              /\ \A k \in 1..Len(Coletados) : Coletados[k].arquivo # ruins[i].name
              /\ df_por_arquivo # <<>> =>
                    \A k \in 1..Len(df_por_arquivo[1]) : df_por_arquivo[1][k].arquivo # ruins[i].name
        /\ Coletados = RegistrosDe(bons)
        /\ pc = "done" =>
              /\ df_final[1] = RegistrosDe(bons)
              /\ total_entrada_geral[1] = SomaEsq(ColEntrada(RegistrosDe(bons)))
              /\ total_saida_geral[1] = SomaEsq(ColSaida(RegistrosDe(bons)))

C8_Witness ==
    /\ pc = "done"
    /\ Len(arquivos) = 3
    /\ ~Suportado(arquivos[1])
    /\ arquivos[2].name = <<"B", ".", "C", "S", "V">>
    /\ Len(arquivos[3].sheets) = 2
    /\ Len(df_final[1]) = 3
    /\ Len(DiagsDe("error")) = 1

SemSaida ==
    /\ todos_resultados = <<>>
    /\ df_final = <<>>
    /\ df_por_arquivo = <<>>
    /\ total_entrada_geral = <<>>
    /\ total_saida_geral = <<>>
    /\ csv_export = <<>>

RunVazio ==
    (pc = "done" /\ df_final[1] = <<>>) =>
        /\ csv_export # <<>>
        /\ total_entrada_geral = <<Zero>>
        /\ total_saida_geral = <<Zero>>
        /\ diags # <<>>
        /\ diags[Len(diags)].msg = "nenhum resultado"

\* C9 as stated: with no files the script halts with no records, aggregates,
\* totals or export, and its only diagnostic is informational.
C9_SemArquivosInformativo ==
    /\ (arquivos = <<>> /\ pc # "start") =>
          /\ pc = "stopped"
          /\ SemSaida
          /\ Len(diags) = 1
          /\ diags[1].sev = "info"
          /\ diags[1].msg = "sem arquivos"
    /\ RunVazio

\* C9 amended: with no files the script halts with no records, aggregates,
\* totals or export, and its only diagnostic is a warning that no files
\* were supplied; a run over files that give no record does produce output.
C9_SemArquivosAviso ==
    /\ (arquivos = <<>> /\ pc # "start") =>
          /\ pc = "stopped"
          /\ SemSaida
          /\ Len(diags) = 1
          /\ diags[1].sev = "warning"
          /\ diags[1].msg = "sem arquivos"
    /\ RunVazio

C9_Witness ==
    /\ arquivos = <<>>
    /\ pc = "stopped"
    /\ diags = <<Diag("warning", "sem arquivos", <<>>, "", {})>>

\* C10: no anomaly is fatal: whatever files are supplied, no exception
\* escapes the run.
C10_NenhumaExcecaoEscapa == pc # "raised"

====
